---- MODULE Spec2Model ----
(***************************************************************************)
(* Model of homework.py: the fitness-tracker calculator.                   *)
(*                                                                         *)
(* Numbers.  Python ints and floats are modelled as exact rationals        *)
(* [n, d] in lowest terms with d > 0; an arithmetic result is either such  *)
(* a rational (err = "none") or the exception the operation raised.  The   *)
(* rounding error of IEEE doubles is not modelled: every value is the      *)
(* exact value of the expression the source writes.                        *)
(***************************************************************************)
EXTENDS Integers, Sequences, FiniteSets, TLC

VARIABLES packages, idx, pc, caller, training, info, message, stdout, error

vars == <<packages, idx, pc, caller, training, info, message, stdout, error>>

----------------------------------------------------------------------------
(* Bounds of the model.                                                    *)

\* longest parameter list handed to read_package (the longest signature has 5)
MaxParams == 6
\* longest list of (code, data) entries the driver loop iterates
MaxPackages == 4

----------------------------------------------------------------------------
(* Exact rational arithmetic with Python's exceptions.                     *)

Abs(x) == IF x < 0 THEN -x ELSE x

RECURSIVE Gcd(_, _)
Gcd(a, b) == IF b = 0 THEN a ELSE Gcd(b, a % b)

\* the rational n/d (d # 0) in lowest terms, as a successful result
Rat(n, d) ==
    LET g == Gcd(Abs(n), Abs(d))
        s == IF d < 0 THEN -1 ELSE 1
    IN  [err |-> "none", n |-> s * (n \div g), d |-> s * (d \div g)]

Num(i) == [err |-> "none", n |-> i, d |-> 1]

Raise(e) == [err |-> e, n |-> 0, d |-> 1]

Ok(x) == x.err = "none"

\* the product (an/ad) * (bn/bd), bd # 0, reduced across before multiplying
Times(an, ad, bn, bd) ==
    LET g == Gcd(Abs(an), Abs(bd))
        h == Gcd(Abs(bn), Abs(ad))
    IN  Rat((an \div g) * (bn \div h), (ad \div h) * (bd \div g))

\* the sum (an/ad) + (bn/bd) over the least common denominator
Plus(an, ad, bn, bd) ==
    LET g == Gcd(ad, bd)
    IN  Rat(an * (bd \div g) + bn * (ad \div g), (ad \div g) * bd)

\* operands are evaluated left to right; the first exception propagates
Add(a, b) ==
    IF ~Ok(a) THEN a ELSE IF ~Ok(b) THEN b
    ELSE Plus(a.n, a.d, b.n, b.d)

Sub(a, b) ==
    IF ~Ok(a) THEN a ELSE IF ~Ok(b) THEN b
    ELSE Plus(a.n, a.d, -b.n, b.d)

Mul(a, b) ==
    IF ~Ok(a) THEN a ELSE IF ~Ok(b) THEN b
    ELSE Times(a.n, a.d, b.n, b.d)

\* faulty variant of TrueDiv: a zero divisor yields 0 and nothing is raised
TrueDivNoRaise(a, b) ==
    IF ~Ok(a) THEN a ELSE IF ~Ok(b) THEN b
    ELSE IF b.n = 0 THEN Num(0)
    ELSE Times(a.n, a.d, b.d, b.n)

\* Python's true division "/": a zero divisor raises ZeroDivisionError
TrueDiv(a, b) ==
    IF ~Ok(a) THEN a ELSE IF ~Ok(b) THEN b
    ELSE IF b.n = 0 THEN Raise("ZeroDivisionError")
    ELSE Times(a.n, a.d, b.d, b.n)

\* Python's floor division "//": the floor of the quotient
FloorDiv(a, b) ==
    IF ~Ok(a) THEN a ELSE IF ~Ok(b) THEN b
    ELSE IF b.n = 0 THEN Raise("ZeroDivisionError")
    ELSE LET q == Times(a.n, a.d, b.d, b.n) IN Num(q.n \div q.d)

\* Python's "**" with a positive integer exponent
RECURSIVE Pow(_, _)
Pow(a, k) == IF k = 1 THEN a ELSE Mul(Pow(a, k - 1), a)

Less(a, b) == a.n * b.d < b.n * a.d

----------------------------------------------------------------------------
(* Class constants.                                                        *)

M_IN_KM == 1000
MIN_IN_HR == 60
RUN_COEFF_MULTIPL == 18
RUN_COEFF_SUBTRACT == 20
SW_COEFF_MULTIPL_FOR_WEIGHT == Rat(35, 1000)
SW_COEFF_MULTIPL == Rat(29, 1000)
SW_COEFF_MULTIPL_FOR_MEAN_SPEED == 2
SWIM_COEFF_FOR_MEAN_SPEED == Rat(11, 10)
SWIM_COEFF_MULTIPL == 2

\* faulty variant of LEN_STEP: Swimming does not override the step length
LenStepNotOverridden(cls) == Rat(65, 100)

\* Training.LEN_STEP, overridden by Swimming
LEN_STEP(cls) == IF cls = "Swimming" THEN Rat(138, 100) ELSE Rat(65, 100)

----------------------------------------------------------------------------
(* Construction.                                                           *)

\* the positional parameters of cls.__init__, self left out
InitParams(cls) ==
    CASE cls = "SportsWalking" -> <<"action", "duration", "weight", "height">>
      [] cls = "Swimming" ->
             <<"action", "duration", "weight", "length_pool", "count_pool">>
      [] OTHER -> <<"action", "duration", "weight">>

NoTraining == [cls |-> "None"]
NoInfo == [training_type |-> "None"]
NoMessage == <<>>
NoError == [type |-> "none", msg |-> <<>>]

Exception(type, msg) == [type |-> type, msg |-> msg]

\* faulty variant of Construct: missing parameters default to 0 and surplus ones
\* are dropped
ConstructLenient(cls, data) ==
    LET params == InitParams(cls) IN
    [raised |-> FALSE, exc |-> NoError,
     obj |-> [cls |-> cls,
              attrs |-> [a \in {params[i] : i \in 1..Len(params)} |->
                  LET i == CHOOSE i \in 1..Len(params) : params[i] = a
                  IN  IF i <= Len(data) THEN data[i] ELSE Num(0)]]]

\* cls(*data): the call binds data to the parameters by position and raises
\* TypeError when their numbers differ; __init__ then stores each parameter
\* in the attribute of its name
Construct(cls, data) ==
    LET params == InitParams(cls) IN
    IF Len(data) # Len(params)
    THEN [raised |-> TRUE, exc |-> Exception("TypeError", <<>>),
          obj |-> NoTraining]
    ELSE [raised |-> FALSE, exc |-> NoError,
          obj |-> [cls |-> cls,
                   attrs |-> [a \in {params[i] : i \in 1..Len(params)} |->
                       data[CHOOSE i \in 1..Len(params) : params[i] = a]]]]

----------------------------------------------------------------------------
(* Methods of Training and its subclasses; t is the instance.              *)

GetDistance(t) ==
    TrueDiv(Mul(t.attrs.action, LEN_STEP(t.cls)), Num(M_IN_KM))

\* faulty variant of GetMeanSpeed: Swimming does not override the mean speed
GetMeanSpeedNotOverridden(t) == TrueDiv(GetDistance(t), t.attrs.duration)

GetMeanSpeed(t) ==
    IF t.cls = "Swimming"
    THEN TrueDiv(TrueDiv(Mul(t.attrs.length_pool, t.attrs.count_pool),
                         Num(M_IN_KM)),
                 t.attrs.duration)
    ELSE TrueDiv(GetDistance(t), t.attrs.duration)

\* faulty variant of RunningSpentCalories: the minutes are divided by, not
\* multiplied by
RunningSpentCaloriesMinutes(t) ==
    TrueDiv(Mul(TrueDiv(Mul(Sub(Mul(Num(RUN_COEFF_MULTIPL), GetMeanSpeed(t)),
                                Num(RUN_COEFF_SUBTRACT)),
                            t.attrs.weight),
                        Num(M_IN_KM)),
                t.attrs.duration),
            Num(MIN_IN_HR))

RunningSpentCalories(t) ==
    Mul(Mul(TrueDiv(Mul(Sub(Mul(Num(RUN_COEFF_MULTIPL), GetMeanSpeed(t)),
                            Num(RUN_COEFF_SUBTRACT)),
                        t.attrs.weight),
                    Num(M_IN_KM)),
            t.attrs.duration),
        Num(MIN_IN_HR))

\* faulty variant of SportsWalkingSpentCalories: "/" in place of "//"
SportsWalkingSpentCaloriesTrueDiv(t) ==
    Mul(Add(Mul(SW_COEFF_MULTIPL_FOR_WEIGHT, t.attrs.weight),
            Mul(Mul(TrueDiv(Pow(GetMeanSpeed(t),
                                SW_COEFF_MULTIPL_FOR_MEAN_SPEED),
                            t.attrs.height),
                    SW_COEFF_MULTIPL),
                t.attrs.weight)),
        Mul(t.attrs.duration, Num(MIN_IN_HR)))

SportsWalkingSpentCalories(t) ==
    Mul(Add(Mul(SW_COEFF_MULTIPL_FOR_WEIGHT, t.attrs.weight),
            Mul(Mul(FloorDiv(Pow(GetMeanSpeed(t),
                                 SW_COEFF_MULTIPL_FOR_MEAN_SPEED),
                             t.attrs.height),
                    SW_COEFF_MULTIPL),
                t.attrs.weight)),
        Mul(t.attrs.duration, Num(MIN_IN_HR)))

SwimmingSpentCalories(t) ==
    Mul(Mul(Add(GetMeanSpeed(t), SWIM_COEFF_FOR_MEAN_SPEED),
            Num(SWIM_COEFF_MULTIPL)),
        t.attrs.weight)

\* faulty variant of GetSpentCalories: SportsWalking does not override the method
GetSpentCaloriesWalkingMissing(t) ==
    CASE t.cls = "Running" -> RunningSpentCalories(t)
      [] t.cls = "Swimming" -> SwimmingSpentCalories(t)
      [] OTHER -> Raise("NotImplementedError")

GetSpentCalories(t) ==
    CASE t.cls = "Running" -> RunningSpentCalories(t)
      [] t.cls = "SportsWalking" -> SportsWalkingSpentCalories(t)
      [] t.cls = "Swimming" -> SwimmingSpentCalories(t)
      [] OTHER -> Raise("NotImplementedError")

\* the arguments of InfoMessage(...) are evaluated in order; the first one
\* that raises ends the call and no InfoMessage is built
ShowTrainingInfo(t) ==
    LET distance == GetDistance(t)
        speed == GetMeanSpeed(t)
        calories == GetSpentCalories(t)
        first == IF ~Ok(distance) THEN distance
                 ELSE IF ~Ok(speed) THEN speed ELSE calories
    IN  IF ~Ok(first)
        THEN [raised |-> TRUE, exc |-> Exception(first.err, <<>>),
              obj |-> NoInfo]
        ELSE [raised |-> FALSE, exc |-> NoError,
              obj |-> [training_type |-> t.cls,
                       duration |-> t.attrs.duration,
                       distance |-> distance,
                       speed |-> speed,
                       calories |-> calories]]

----------------------------------------------------------------------------
(* InfoMessage.get_message.                                                *)

\* format(x, ".3f"): sign, whole part and three decimals of x rounded to
\* the nearest thousandth, ties to even; a negative x keeps its sign even
\* when it rounds to zero
Format3(x) ==
    LET w == Abs(x.n) \div x.d
        rest == (Abs(x.n) % x.d) * 1000
        q == rest \div x.d
        r == rest % x.d
        f == IF 2 * r > x.d THEN q + 1
             ELSE IF 2 * r = x.d THEN q + (q % 2) ELSE q
    IN  [sign |-> IF x.n < 0 THEN "-" ELSE "",
         whole |-> IF f = 1000 THEN w + 1 ELSE w,
         frac |-> IF f = 1000 THEN 0 ELSE f]

\* the pieces of the f-string in source order; the Cyrillic literals are
\* transliterated
GetMessage(i) ==
    << "Tip trenirovki: ", i.training_type,
       "; Dlitel'nost': ", Format3(i.duration),
       " ch.; Distanciya: ", Format3(i.distance),
       " km; Sr. skorost': ", Format3(i.speed),
       " km/ch; Potracheno kkal: ", Format3(i.calories), "." >>

----------------------------------------------------------------------------
(* read_package.                                                           *)

\* faulty variant of PackagesDict: the classes of SWM and RUN are exchanged
PackagesDictExchanged ==
    [code \in {"SWM", "RUN", "WLK"} |->
        CASE code = "SWM" -> "Running"
          [] code = "RUN" -> "Swimming"
          [] OTHER -> "SportsWalking"]

\* the dict packages of read_package, as a function on its keys
PackagesDict ==
    [code \in {"SWM", "RUN", "WLK"} |->
        CASE code = "SWM" -> "Swimming"
          [] code = "RUN" -> "Running"
          [] OTHER -> "SportsWalking"]

\* faulty variant of ReadPackage: an unknown code falls back to Running
ReadPackageFallback(workout_type, data) ==
    IF workout_type \notin DOMAIN PackagesDict
    THEN Construct("Running", data)
    ELSE Construct(PackagesDict[workout_type], data)

ReadPackage(workout_type, data) ==
    IF workout_type \notin DOMAIN PackagesDict
    THEN [raised |-> TRUE,
          exc |-> Exception("KeyError",
                            <<workout_type, " - neizvestnyj tip trenirovki">>),
          obj |-> NoTraining]
    ELSE Construct(PackagesDict[workout_type], data)

----------------------------------------------------------------------------
(* Inputs.                                                                 *)

WorkoutTypes == {"SWM", "RUN", "WLK", "XYZ"}

\* the values tried at position i of a parameter list: action; duration;
\* weight; height or length_pool; count_pool; anything beyond
ValuesAt(i) ==
    CASE i = 1 -> {Num(0), Num(800), Num(9000), Num(15000)}
      [] i = 2 -> {Num(0), Rat(1, 2), Num(1), Num(2)}
      [] i = 3 -> {Num(75), Num(80)}
      [] i = 4 -> {Num(0), Num(25), Num(50), Num(180)}
      [] i = 5 -> {Num(16), Num(40)}
      [] OTHER -> {Num(7)}

\* every parameter list of length n
RECURSIVE DataListsOfLen(_)
DataListsOfLen(n) ==
    IF n = 0 THEN {<<>>}
    ELSE {Append(d, v) : d \in DataListsOfLen(n - 1), v \in ValuesAt(n)}

DataLists == UNION {DataListsOfLen(n) : n \in 0..MaxParams}

Ints(s) == [i \in 1..Len(s) |-> Num(s[i])]

\* the list packages of __main__
MainPackages ==
    << <<"SWM", Ints(<<720, 1, 80, 25, 40>>)>>,
       <<"RUN", Ints(<<15000, 1, 75>>)>>,
       <<"WLK", Ints(<<9000, 1, 75, 180>>)>> >>

\* the entries the multi-entry lists are built from: those of __main__, an
\* unknown code, a list one parameter short, and a zero duration
DriverPool ==
    {MainPackages[i] : i \in 1..3} \cup
    { <<"XYZ", Ints(<<15000, 1, 75>>)>>,
      <<"RUN", Ints(<<15000, 1>>)>>,
      <<"WLK", Ints(<<9000, 0, 75, 180>>)>> }

PackageLists ==
    {<< <<w, d>> >> : w \in WorkoutTypes, d \in DataLists} \cup
    UNION {[1..n -> DriverPool] : n \in 0..MaxPackages}

----------------------------------------------------------------------------
(* The program.  caller = "driver": the loop of __main__ over packages.    *)
(* caller = "direct": a caller that builds a base Training itself and      *)
(* hands it to main.                                                       *)

Init ==
    /\ \/ caller = "driver" /\ packages \in PackageLists /\ pc = "loop"
       \/ caller = "direct" /\ packages = <<>> /\ pc = "construct"
    /\ idx = 1
    /\ training = NoTraining
    /\ info = NoInfo
    /\ message = NoMessage
    /\ stdout = <<>>
    /\ error = NoError

\* Training(action, duration, weight), called directly
TrainingInit ==
    /\ pc = "construct"
    /\ \E a \in ValuesAt(1), d \in ValuesAt(2), w \in ValuesAt(3) :
          training' = Construct("Training", <<a, d, w>>).obj
    /\ pc' = "main"
    /\ UNCHANGED <<packages, idx, caller, info, message, stdout, error>>

\* faulty variant of LoopReadPackage: an entry that fails is skipped and the loop
\* goes on
LoopReadPackageContinue ==
    /\ pc = "loop"
    /\ idx <= Len(packages)
    /\ LET r == ReadPackage(packages[idx][1], packages[idx][2]) IN
          IF r.raised
          THEN /\ error' = r.exc
               /\ pc' = "loop"
               /\ idx' = idx + 1
               /\ UNCHANGED training
          ELSE /\ training' = r.obj
               /\ pc' = "main"
               /\ UNCHANGED <<error, idx>>
    /\ UNCHANGED <<packages, caller, info, message, stdout>>

\* training = read_package(workout_type, data) for the next entry
LoopReadPackage ==
    /\ pc = "loop"
    /\ idx <= Len(packages)
    /\ LET r == ReadPackage(packages[idx][1], packages[idx][2]) IN
          IF r.raised
          THEN /\ error' = r.exc
               /\ pc' = "failed"
               /\ UNCHANGED training
          ELSE /\ training' = r.obj
               /\ pc' = "main"
               /\ UNCHANGED error
    /\ UNCHANGED <<packages, idx, caller, info, message, stdout>>

\* main: info = training.show_training_info()
MainShowTrainingInfo ==
    /\ pc = "main"
    /\ LET r == ShowTrainingInfo(training) IN
          IF r.raised
          THEN /\ error' = r.exc
               /\ pc' = "failed"
               /\ UNCHANGED info
          ELSE /\ info' = r.obj
               /\ pc' = "format"
               /\ UNCHANGED error
    /\ UNCHANGED <<packages, idx, caller, training, message, stdout>>

\* main: info.get_message()
MainGetMessage ==
    /\ pc = "format"
    /\ message' = GetMessage(info)
    /\ pc' = "print"
    /\ UNCHANGED <<packages, idx, caller, training, info, stdout, error>>

\* main: print(...), the return of main and the step to the next entry
MainPrint ==
    /\ pc = "print"
    /\ stdout' = Append(stdout, message)
    /\ info' = NoInfo
    /\ message' = NoMessage
    /\ idx' = idx + 1
    /\ pc' = "loop"
    /\ UNCHANGED <<packages, caller, training, error>>

\* the list is exhausted: the program ends normally
LoopExit ==
    /\ pc = "loop"
    /\ idx > Len(packages)
    /\ pc' = "done"
    /\ UNCHANGED <<packages, idx, caller, training, info, message, stdout, error>>

Next ==
    \/ TrainingInit
    \/ LoopReadPackage
    \/ MainShowTrainingInfo
    \/ MainGetMessage
    \/ MainPrint
    \/ LoopExit

Spec == Init /\ [][Next]_vars

----------------------------------------------------------------------------
(* Vocabulary of the properties, written from the documented contract and  *)
(* not from the operators above.                                           *)

Recognized(w) == w \in {"SWM", "RUN", "WLK"}

ExpectedCount(w) ==
    CASE w = "SWM" -> 5
      [] w = "RUN" -> 3
      [] OTHER -> 4

ExpectedName(w) ==
    CASE w = "SWM" -> "Swimming"
      [] w = "RUN" -> "Running"
      [] OTHER -> "SportsWalking"

\* the instance the contract promises for a recognized code w and a list d
\* of the matching length
ExpectedInstance(w, d) ==
    CASE w = "SWM" ->
             [cls |-> "Swimming",
              attrs |-> [action |-> d[1], duration |-> d[2], weight |-> d[3],
                         length_pool |-> d[4], count_pool |-> d[5]]]
      [] w = "RUN" ->
             [cls |-> "Running",
              attrs |-> [action |-> d[1], duration |-> d[2], weight |-> d[3]]]
      [] OTHER ->
             [cls |-> "SportsWalking",
              attrs |-> [action |-> d[1], duration |-> d[2], weight |-> d[3],
                         height |-> d[4]]]

WellFormed(e) == Recognized(e[1]) /\ Len(e[2]) = ExpectedCount(e[1])

\* the driver has taken the entry at idx out of the list and is past its
\* dispatch
Dispatched == caller = "driver" /\ idx <= Len(packages) /\ pc # "loop"

WorkoutType == packages[idx][1]
Data == packages[idx][2]

\* read_package raised for the current entry
DispatchFailed == pc = "failed" /\ error.type \in {"KeyError", "TypeError"}

\* the value of the variable training before the dispatch of the current
\* entry: nothing, or the instance of the entry before it
TrainingBefore ==
    IF idx = 1 THEN NoTraining
    ELSE ExpectedInstance(packages[idx - 1][1], packages[idx - 1][2])

InfoPresent == pc \in {"format", "print"}

----------------------------------------------------------------------------
\* C1: for a recognized code and a parameter list of the matching length,
\* read_package returns an instance of the mapped class (SWM -> Swimming,
\* RUN -> Running, WLK -> SportsWalking) whose attributes are the parameters
\* bound by position (action, duration, weight, then the extras), and the
\* report of that instance carries the class name as its label.
C1_DispatchBindsVariant ==
    (Dispatched /\ WellFormed(packages[idx])) =>
        /\ ~DispatchFailed
        /\ training = ExpectedInstance(WorkoutType, Data)
        /\ training.cls = ExpectedName(WorkoutType)
        /\ InfoPresent => info.training_type = ExpectedName(WorkoutType)
        /\ pc = "print" => message[2] = ExpectedName(WorkoutType)

\* the documented example: ("SWM", [720, 1, 80, 25, 40]) reported as Swimming
C1_Witness ==
    /\ Dispatched
    /\ pc = "print"
    /\ packages[idx] = <<"SWM", Ints(<<720, 1, 80, 25, 40>>)>>
    /\ training.attrs.length_pool = Num(25)
    /\ training.attrs.count_pool = Num(40)
    /\ message[2] = "Swimming"

\* C2: for a code other than SWM, RUN, WLK and any parameter list,
\* read_package raises the unknown-type error (KeyError) whose message
\* contains the code, and no instance is constructed: the variable training
\* keeps the value it had.
C2_UnknownCodeFails ==
    (Dispatched /\ ~Recognized(WorkoutType)) =>
        /\ pc = "failed"
        /\ error.type = "KeyError"
        /\ \E i \in 1..Len(error.msg) : error.msg[i] = WorkoutType
        /\ training = TrainingBefore
        /\ info = NoInfo
        /\ Len(stdout) = idx - 1

\* an unknown code met after a good entry: the instance of that entry stays
C2_Witness ==
    /\ Dispatched
    /\ idx = 2
    /\ WorkoutType = "XYZ"
    /\ error.type = "KeyError"
    /\ error.msg[1] = "XYZ"
    /\ training # NoTraining

\* C3: for a recognized code and a parameter list whose length differs from
\* the expected count (3 for RUN, 4 for WLK, 5 for SWM), shorter or longer,
\* read_package raises a construction error (TypeError) and returns no
\* instance: the variable training keeps the value it had, so no instance
\* with misbound or missing attributes exists.
C3_ArityMismatchFails ==
    (Dispatched /\ Recognized(WorkoutType)
                /\ Len(Data) # ExpectedCount(WorkoutType)) =>
        /\ pc = "failed"
        /\ error.type = "TypeError"
        /\ training = TrainingBefore
        /\ info = NoInfo
        /\ Len(stdout) = idx - 1

\* a list longer than the signature (WLK with 5 parameters) has failed
C3_Witness ==
    /\ Dispatched
    /\ WorkoutType = "WLK"
    /\ Len(Data) = 5
    /\ pc = "failed"
    /\ error.type = "TypeError"

----------------------------------------------------------------------------
\* the entry ("RUN", [15000, 1, 75]) has been reported
RunExampleReported ==
    /\ Dispatched
    /\ InfoPresent
    /\ packages[idx] = <<"RUN", Ints(<<15000, 1, 75>>)>>

\* |x - c| < eps for rationals
Near(x, c, eps) == Less(Sub(x, c), eps) /\ Less(Sub(c, x), eps)

\* the Running formula on the literals of the example
RunExampleFormula ==
    Mul(Mul(TrueDiv(Mul(Sub(Mul(Num(18), info.speed), Num(20)), Num(75)),
                    Num(1000)),
            Num(1)),
        Num(60))

\* C4 as stated: ("RUN", [15000, 1, 75]) is reported with duration 1.000,
\* distance 9.750, mean speed 9.750 and calories equal to
\* (18 * meanSpeed - 20) * weight / 1000 * duration * 60, approximately
\* 692.25 (taken here as: within 1 kcal of 692.25).
C4_RunExampleAsStated ==
    RunExampleReported =>
        /\ info.duration = Num(1)
        /\ info.distance = Rat(975, 100)
        /\ info.speed = Rat(975, 100)
        /\ info.calories = RunExampleFormula
        /\ Near(info.calories, Rat(69225, 100), Num(1))

\* C4 amended: the same report, whose calories are the value of the formula,
\* 699.75, printed as 699.750.
C4_RunExample ==
    RunExampleReported =>
        /\ info.duration = Num(1)
        /\ info.distance = Rat(975, 100)
        /\ info.speed = Rat(975, 100)
        /\ info.calories = RunExampleFormula
        /\ info.calories = Rat(69975, 100)
        /\ pc = "print" =>
              /\ message[4] = [sign |-> "", whole |-> 1, frac |-> 0]
              /\ message[6] = [sign |-> "", whole |-> 9, frac |-> 750]
              /\ message[8] = [sign |-> "", whole |-> 9, frac |-> 750]
              /\ message[10] = [sign |-> "", whole |-> 699, frac |-> 750]

C4_Witness == RunExampleReported /\ pc = "print" /\ message[2] = "Running"

----------------------------------------------------------------------------
\* the step length the contract gives each variant, in metres
StepLengthM(cls) == IF cls = "Swimming" THEN Rat(138, 100) ELSE Rat(65, 100)

\* every instance of the class of t with the action count of t and any
\* values of the other attributes
SameAction(t) ==
    {x \in {ExpectedInstance(w, d) : w \in {"SWM", "RUN", "WLK"},
                                     d \in DataListsOfLen(5)} :
        x.cls = t.cls /\ x.attrs.action = t.attrs.action}

\* C5: for every instance of the three variants, distance() is
\* actionCount * stepLengthM / 1000 with stepLengthM 0.65 for Running and
\* SportsWalking and 1.38 for Swimming, and no other attribute changes it;
\* the report carries that value.
C5_Distance ==
    (Dispatched /\ ~DispatchFailed) =>
        LET expected == TrueDiv(Mul(training.attrs.action,
                                    StepLengthM(training.cls)), Num(1000))
        IN  /\ GetDistance(training) = expected
            /\ \A x \in SameAction(training) : GetDistance(x) = expected
            /\ InfoPresent => info.distance = expected

\* a Swimming report with 720 strokes: 0.9936 km
C5_Witness ==
    /\ Dispatched
    /\ InfoPresent
    /\ training.cls = "Swimming"
    /\ training.attrs.action = Num(720)
    /\ info.distance = Rat(9936, 10000)

----------------------------------------------------------------------------
\* every Swimming instance that agrees with t on length_pool, count_pool and
\* duration
SamePool(t) ==
    {[t EXCEPT !.attrs.action = a, !.attrs.weight = w] :
        a \in ValuesAt(1), w \in ValuesAt(3)}

\* C6: Swimming samples that agree on pool length, pool laps and a non-zero
\* duration have the same mean speed, length_pool * count_pool / 1000 /
\* duration, whatever their action count and weight; the report carries it.
C6_SwimmingMeanSpeed ==
    (Dispatched /\ ~DispatchFailed /\ training.cls = "Swimming"
                /\ training.attrs.duration # Num(0)) =>
        LET expected == TrueDiv(TrueDiv(Mul(training.attrs.length_pool,
                                            training.attrs.count_pool),
                                        Num(1000)),
                                training.attrs.duration)
        IN  /\ \A x \in SamePool(training) : GetMeanSpeed(x) = expected
            /\ InfoPresent => info.speed = expected

\* a Swimming report whose mean speed is not its distance over its duration
C6_Witness ==
    /\ Dispatched
    /\ InfoPresent
    /\ training.cls = "Swimming"
    /\ info.speed # TrueDiv(info.distance, info.duration)
    /\ \E x \in SamePool(training) : x.attrs.action # training.attrs.action

----------------------------------------------------------------------------
\* floor(a / b) of two rationals, b > 0
FloorQuotient(a, b) == (a.n * b.d) \div (a.d * b.n)

\* the SportsWalking formula with the quotient q already floored
WalkingFormula(q, weight, duration) ==
    Mul(Add(Mul(Rat(35, 1000), weight),
            Mul(Mul(Num(q), Rat(29, 1000)), weight)),
        Mul(duration, Num(60)))

\* C7: for a SportsWalking sample with duration > 0 and height > 0 the
\* calories are (0.035 * weight + floor(meanSpeed^2 / height) * 0.029 *
\* weight) * (duration * 60): heights with the same integer quotient give the
\* same calories, and when meanSpeed^2 < height the speed term is 0.
C7_WalkingFloor ==
    (Dispatched /\ InfoPresent /\ training.cls = "SportsWalking"
                /\ Less(Num(0), training.attrs.height)
                /\ Less(Num(0), training.attrs.duration)) =>
        LET a == training.attrs
            speed2 == Mul(info.speed, info.speed)
            q == FloorQuotient(speed2, a.height)
        IN  /\ info.calories = WalkingFormula(q, a.weight, a.duration)
            /\ Less(speed2, a.height) =>
                  info.calories = Mul(Mul(Rat(35, 1000), a.weight),
                                      Mul(a.duration, Num(60)))
            /\ \A h \in {v \in ValuesAt(4) : Less(Num(0), v)} :
                  FloorQuotient(speed2, h) = q =>
                      SportsWalkingSpentCalories(
                          [training EXCEPT !.attrs.height = h])
                      = info.calories

\* a walk whose squared speed is above its height and not a multiple of it:
\* the quotient is floored to a non-zero integer
C7_Witness ==
    /\ Dispatched
    /\ InfoPresent
    /\ training.cls = "SportsWalking"
    /\ Less(Num(0), training.attrs.height)
    /\ LET speed2 == Mul(info.speed, info.speed)
           q == FloorQuotient(speed2, training.attrs.height)
       IN  q >= 1 /\ Mul(Num(q), training.attrs.height) # speed2

----------------------------------------------------------------------------
\* the entry e ends in an exception, in read_package or in the report
EntryFails(e) ==
    \/ ReadPackage(e[1], e[2]).raised
    \/ ShowTrainingInfo(ReadPackage(e[1], e[2]).obj).raised

\* the line the program writes for an entry that does not fail
LineOf(e) == GetMessage(ShowTrainingInfo(ReadPackage(e[1], e[2]).obj).obj)

\* C8: the driver handles the entries in input order, each as dispatch,
\* report, format, write; at every point the lines written are the formatted
\* reports of a prefix of the list, one per entry and in order; once an entry
\* fails, no line is written for it or for any later entry.
C8_OutputIsPrefix ==
    caller = "driver" =>
        /\ idx \in 1..(Len(packages) + 1)
        /\ Len(stdout) = idx - 1
        /\ \A i \in 1..Len(stdout) :
              ~EntryFails(packages[i]) /\ stdout[i] = LineOf(packages[i])
        /\ pc = "failed" => idx <= Len(packages) /\ EntryFails(packages[idx])
        /\ pc \in {"main", "format", "print"} =>
              idx <= Len(packages) /\ ~ReadPackage(WorkoutType, Data).raised
        /\ pc = "print" => message = LineOf(packages[idx])
        /\ pc = "done" => idx = Len(packages) + 1
        /\ pc \in {"loop", "main", "format", "print", "failed", "done"}

\* two lines are out and the third entry has failed with entries behind it
C8_Witness ==
    /\ caller = "driver"
    /\ pc = "failed"
    /\ idx = 3
    /\ Len(packages) > 3
    /\ Len(stdout) = 2
    /\ stdout[1] # stdout[2]

----------------------------------------------------------------------------
\* C9: the not-implemented error of the base class cannot be reached through
\* the dispatcher: an instance read_package returns is one of the three
\* concrete variants and its report never ends in NotImplementedError; the
\* error arises only for a base Training constructed directly.
C9_NotImplementedUnreachable ==
    /\ (Dispatched /\ ~DispatchFailed) =>
          /\ training.cls \in {"Running", "SportsWalking", "Swimming"}
          /\ error.type # "NotImplementedError"
          /\ GetSpentCalories(training).err # "NotImplementedError"
    /\ error.type = "NotImplementedError" =>
          caller = "direct" /\ training.cls = "Training"
    /\ (caller = "direct" /\ pc \notin {"construct", "main"}) =>
          pc = "failed"
             /\ error.type \in {"NotImplementedError", "ZeroDivisionError"}

\* a dispatched SportsWalking instance has been reported
C9_Witness ==
    /\ Dispatched
    /\ InfoPresent
    /\ training.cls = "SportsWalking"
    /\ error = NoError

----------------------------------------------------------------------------
\* C10: a zero duration is not guarded: for a recognized code and a list of
\* the matching length with duration 0 the instance is constructed,
\* distance() returns its value, and the report ends in ZeroDivisionError
\* raised by the mean speed, for all three variants; no InfoMessage is built
\* and no line is written.
C10_ZeroDuration ==
    (Dispatched /\ WellFormed(packages[idx]) /\ Data[2] = Num(0)) =>
        /\ training = ExpectedInstance(WorkoutType, Data)
        /\ GetDistance(training)
              = TrueDiv(Mul(Data[1], StepLengthM(training.cls)), Num(1000))
        /\ GetMeanSpeed(training).err = "ZeroDivisionError"
        /\ GetSpentCalories(training).err = "ZeroDivisionError"
        /\ pc \in {"main", "failed"}
        /\ pc = "failed" => error.type = "ZeroDivisionError"
        /\ info = NoInfo
        /\ Len(stdout) = idx - 1

\* a Swimming sample of zero duration has failed in its report
C10_Witness ==
    /\ Dispatched
    /\ WorkoutType = "SWM"
    /\ WellFormed(packages[idx])
    /\ Data[2] = Num(0)
    /\ training.cls = "Swimming"
    /\ pc = "failed"
    /\ error.type = "ZeroDivisionError"

====
